---- MODULE Spec2Model ----
(***************************************************************************)
(* A model of colour/gamut.py: class Gamut.                                *)
(*                                                                         *)
(* Coordinates are integers.  numpy computes on float64; on the small      *)
(* integers used here +, - and * are exact, so every comparison with 0 in  *)
(* the source is modelled by the same comparison on the exact value.       *)
(* Quotients and norms are compared exactly as well (a norm by its square, *)
(* a quotient by cross-multiplication), and the accumulator `inclusion` is *)
(* kept doubled so that the half steps of 0.5*sign stay integers.          *)
(***************************************************************************)
EXTENDS Integers, Sequences, FiniteSets, TLC

(***************************************************************************)
(* numpy vector arithmetic on 3-vectors                                    *)
(***************************************************************************)
Sub(a, b) == <<a[1] - b[1], a[2] - b[2], a[3] - b[3]>>

Add(a, b) == <<a[1] + b[1], a[2] + b[2], a[3] + b[3]>>

Scale(k, a) == <<k * a[1], k * a[2], k * a[3]>>

Dot(a, b) == a[1] * b[1] + a[2] * b[2] + a[3] * b[3]

Cross(a, b) ==
    <<a[2] * b[3] - a[3] * b[2], a[3] * b[1] - a[1] * b[3], a[1] * b[2] - a[2] * b[1]>>

Sgn(x) == IF x > 0 THEN 1 ELSE IF x < 0 THEN -1 ELSE 0

\* np.linalg.det of a 3x3 matrix given by its rows
Det3(r1, r2, r3) == Dot(r1, Cross(r2, r3))

\* np.delete(arr, i, 0) with i counted from 1
Delete(arr, i) == [k \in 1..(Len(arr) - 1) |-> IF k < i THEN arr[k] ELSE arr[k + 1]]

origin == <<0, 0, 0>>

(***************************************************************************)
(* Gamut.in_line: the collinearity test is the determinant of the matrix   *)
(* with rows (1,1,1), b, p.                                                *)
(***************************************************************************)
in_line(line, point, true_interior) ==
    IF true_interior /\ (point = line[1] \/ point = line[2]) THEN FALSE
    ELSE LET b == Sub(line[2], line[1])
             p == Sub(point, line[1])
         IN  /\ Det3(<<1, 1, 1>>, b, p) = 0
             /\ Dot(p, b) >= 0
             /\ Dot(p, p) <= Dot(b, b)

(***************************************************************************)
(* Gamut.in_triangle.  r + t <= 1 with r = |c x p| / |b x c| and           *)
(* t = |b x p| / |b x c|: past the coplanarity test both cross products    *)
(* are parallel to b x c, so |c x p| * |b x c| = |(c x p) . (b x c)|.      *)
(* A zero denominator gives inf or nan in numpy and the comparison fails.  *)
(***************************************************************************)
Abs(x) == IF x < 0 THEN -x ELSE x

\* as in_triangle would be without the second of its two half-plane tests
in_triangleOneSided(triangle, P, true_interior) ==
    IF true_interior /\ (\/ in_line(<<triangle[1], triangle[2]>>, P, FALSE)
                         \/ in_line(<<triangle[2], triangle[3]>>, P, FALSE)
                         \/ in_line(<<triangle[1], triangle[3]>>, P, FALSE))
    THEN FALSE
    ELSE LET b == Sub(triangle[2], triangle[1])
             c == Sub(triangle[3], triangle[1])
             p == Sub(P, triangle[1])
             b_x_c == Cross(b, c)
             c_x_p == Cross(c, p)
             c_x_b == Cross(c, b)
             b_x_p == Cross(b, p)
             denom2 == Dot(b_x_c, b_x_c)
         IN  IF triangle[1] = triangle[2]
             THEN in_line(<<triangle[1], triangle[2]>>, p, FALSE)
             ELSE IF triangle[1] = triangle[3]
             THEN in_line(<<triangle[1], triangle[3]>>, p, FALSE)
             ELSE IF triangle[2] = triangle[3]
             THEN in_line(<<triangle[2], triangle[3]>>, p, FALSE)
             ELSE IF Dot(b_x_c, p) # 0 THEN FALSE
             ELSE IF Dot(c_x_p, c_x_b) < 0 THEN FALSE
             ELSE /\ denom2 # 0
                  /\ Abs(Dot(c_x_p, b_x_c)) + Abs(Dot(b_x_p, b_x_c)) <= denom2

in_triangle(triangle, P, true_interior) ==
    IF true_interior /\ (\/ in_line(<<triangle[1], triangle[2]>>, P, FALSE)
                         \/ in_line(<<triangle[2], triangle[3]>>, P, FALSE)
                         \/ in_line(<<triangle[1], triangle[3]>>, P, FALSE))
    THEN FALSE
    ELSE LET b == Sub(triangle[2], triangle[1])
             c == Sub(triangle[3], triangle[1])
             p == Sub(P, triangle[1])
             b_x_c == Cross(b, c)
             c_x_p == Cross(c, p)
             c_x_b == Cross(c, b)
             b_x_p == Cross(b, p)
             denom2 == Dot(b_x_c, b_x_c)
         IN  IF triangle[1] = triangle[2]
             THEN in_line(<<triangle[1], triangle[2]>>, p, FALSE)
             ELSE IF triangle[1] = triangle[3]
             THEN in_line(<<triangle[1], triangle[3]>>, p, FALSE)
             ELSE IF triangle[2] = triangle[3]
             THEN in_line(<<triangle[2], triangle[3]>>, p, FALSE)
             ELSE IF Dot(b_x_c, p) # 0 THEN FALSE
             ELSE IF Dot(c_x_p, c_x_b) < 0 THEN FALSE
             ELSE IF Dot(b_x_p, b_x_c) < 0 THEN FALSE
             ELSE /\ denom2 # 0
                  /\ Abs(Dot(c_x_p, b_x_c)) + Abs(Dot(b_x_p, b_x_c)) <= denom2

(***************************************************************************)
(* Gamut.is_coplanar                                                       *)
(***************************************************************************)
is_coplanar(p) ==
    IF Len(p) < 4 THEN TRUE
    ELSE LET b == Sub(p[2], p[1])
             c == Sub(p[3], p[1])
             d == Sub(p[4], p[1])
         IN  Dot(d, Cross(b, c)) = 0

(***************************************************************************)
(* Gamut.true_shape                                                        *)
(***************************************************************************)
\* as the loop would be if it appended every point
KeepAll(points, k) == SubSeq(points, 1, k)

\* lines 614-619: the points in order, each kept at its first occurrence
RECURSIVE Uniques(_, _)
Uniques(points, k) ==
    IF k = 0 THEN <<>>
    ELSE LET u == Uniques(points, k - 1)
         IN  IF \E m \in 1..Len(u) : u[m] = points[k] THEN u ELSE Append(u, points[k])

\* the while loops return at the first i that hits
WithoutFirstHit(uniques, hits) ==
    IF hits = {} THEN uniques
    ELSE Delete(uniques, CHOOSE i \in hits : \A m \in hits : i <= m)

\* lines 621-641, on the de-duplicated points
ShapeOfUniques(uniques) ==
    IF Len(uniques) < 3 THEN uniques
    ELSE IF Len(uniques) = 3
    THEN WithoutFirstHit(uniques,
             {i \in 1..3 : in_line(Delete(uniques, i), uniques[i], FALSE)})
    ELSE WithoutFirstHit(uniques,
             {i \in 1..4 : in_triangle(Delete(uniques, i), uniques[i], FALSE)})

true_shape(points) == ShapeOfUniques(Uniques(points, Len(points)))

(***************************************************************************)
(* Gamut.sign: minus the sign of the 4x4 determinant whose columns are the *)
(* points and whose last row is ones.  That determinant equals             *)
(* -(t1 - t0) . ((t2 - t0) x (t3 - t0)).                                   *)
(***************************************************************************)
Det4Homogeneous(t) ==
    0 - Det3(Sub(t[2], t[1]), Sub(t[3], t[1]), Sub(t[4], t[1]))

\* as sign would be without the closing * -1
signOfDeterminant(t) == Sgn(Det4Homogeneous(t))

sign(t) == Sgn(Det4Homogeneous(t)) * (-1)

(***************************************************************************)
(* Gamut.in_tetrahedron.  spatial.Delaunay(t).find_simplex(p) >= 0 for     *)
(* four non-coplanar points: p is in the closed tetrahedron.               *)
(***************************************************************************)
DelaunayFindSimplex(t, p) ==
    \A i \in 1..4 : sign([t EXCEPT ![i] = p]) * sign(t) >= 0

in_tetrahedron(t, p, true_interior) ==
    IF true_interior /\ (\E i \in 1..4 : in_triangle(Delete(t, i), p, FALSE))
    THEN FALSE
    ELSE DelaunayFindSimplex(t, p)

(***************************************************************************)
(* Gamut.in_polygon                                                        *)
(***************************************************************************)
in_polygon(pts, q, true_interior) ==
    \/ \E tri \in {<<pts[1], pts[2], pts[3]>>, <<pts[2], pts[3], pts[4]>>} :
          in_triangle(tri, q, true_interior)
    \/ true_interior /\ in_line(<<pts[2], pts[3]>>, q, TRUE)

(***************************************************************************)
(* Gamut.interior                                                          *)
(***************************************************************************)
\* lines 661-669: the test that fits the shape the coplanar points reduce to
InShape(shape, q, true_interior) ==
    CASE Len(shape) = 1 -> shape[1] = q
      [] Len(shape) = 2 -> in_line(shape, q, FALSE)
      [] Len(shape) = 3 -> in_triangle(shape, q, true_interior)
      [] Len(shape) = 4 -> in_polygon(shape, q, true_interior)
      [] OTHER -> FALSE

interior(pts, q, true_interior) ==
    IF is_coplanar(pts)
    THEN InShape(true_shape(pts), q, true_interior)
    ELSE in_tetrahedron(pts, q, true_interior)

(***************************************************************************)
(* Bounds of the model                                                     *)
(***************************************************************************)
\* the clouds are centred at (k,k,k) and (k,0,0), k in 0..MaxOffset, and the
\* query points have coordinates in -1 .. MaxOffset + 1
MaxOffset == 2

\* the hull primitive may return any of MaxVariant + 1 listings of the facets
MaxVariant == 2

(***************************************************************************)
(* Input point clouds (colour.Data in the gamut's own colour space).       *)
(* Points are indexed from 0, as numpy does.                               *)
(***************************************************************************)
Bit(i, k) == (i \div k) % 2

\* the 8 corners of the cube of half-width 1 about `off`
Cube(off) ==
    [i \in 0..7 |-> <<off[1] + 2 * Bit(i, 4) - 1,
                      off[2] + 2 * Bit(i, 2) - 1,
                      off[3] + 2 * Bit(i, 1) - 1>>]

\* an octahedron on the axes through `off`, its +x tip twice as far as the others
Octahedron(off) ==
    [i \in 0..5 |-> Add(off, CASE i = 0 -> <<2, 0, 0>>
                               [] i = 1 -> <<-1, 0, 0>>
                               [] i = 2 -> <<0, 1, 0>>
                               [] i = 3 -> <<0, -1, 0>>
                               [] i = 4 -> <<0, 0, 1>>
                               [] i = 5 -> <<0, 0, -1>>)]

\* four alternate corners of the cube about `off`
Tetrahedron(off) ==
    [i \in 0..3 |-> Add(off, CASE i = 0 -> <<-1, -1, -1>>
                               [] i = 1 -> <<1, 1, -1>>
                               [] i = 2 -> <<1, -1, 1>>
                               [] i = 3 -> <<-1, 1, 1>>)]

DiagonalOffsets == {<<k, k, k>> : k \in 0..MaxOffset}

AxisOffsets == {<<k, 0, 0>> : k \in 0..MaxOffset}

Offsets == DiagonalOffsets \cup AxisOffsets

Clouds ==
    {Cube(off) : off \in Offsets} \cup {Octahedron(off) : off \in AxisOffsets}
        \cup {Tetrahedron(off) : off \in DiagonalOffsets}

NPoints(cloud) == Cardinality(DOMAIN cloud)

(***************************************************************************)
(* scipy.spatial.ConvexHull (qhull), the hull primitive.  It returns a     *)
(* triangulation of the hull's surface; the order of the facets and the    *)
(* order of the three indices inside a facet are its own choice.           *)
(***************************************************************************)
CubeFacets ==
    << <<0, 1, 3>>, <<0, 3, 2>>, <<4, 5, 7>>, <<4, 7, 6>>,
       <<0, 1, 5>>, <<0, 5, 4>>, <<2, 3, 7>>, <<2, 7, 6>>,
       <<0, 2, 6>>, <<0, 6, 4>>, <<1, 3, 7>>, <<1, 7, 5>> >>

OctahedronFacets ==
    << <<0, 2, 4>>, <<0, 2, 5>>, <<0, 3, 4>>, <<0, 3, 5>>,
       <<1, 2, 4>>, <<1, 2, 5>>, <<1, 3, 4>>, <<1, 3, 5>> >>

TetrahedronFacets == << <<0, 1, 2>>, <<0, 1, 3>>, <<0, 2, 3>>, <<1, 2, 3>> >>

QhullFacets(pts) ==
    CASE NPoints(pts) = 8 -> CubeFacets
      [] NPoints(pts) = 6 -> OctahedronFacets
      [] OTHER -> TetrahedronFacets

\* the points all lie in one plane
Flat(pts) ==
    \A i, j, k, l \in DOMAIN pts :
        Det3(Sub(pts[j], pts[i]), Sub(pts[k], pts[i]), Sub(pts[l], pts[i])) = 0

\* the primitive raises QhullError when it has fewer than 4 points to start a
\* simplex from (QH6214), and when the points it starts from are flat (QH6154).
\* Option 'QJ' joggles the input, each coordinate moved by a tiny random
\* amount, so that the points it starts from are never flat.
QhullFails(pts, joggled) ==
    \/ NPoints(pts) < Len(TetrahedronFacets)
    \/ ~joggled /\ Flat(pts)

\* the three indices of a facet, started at position 1 + rot and reversed or not
Wind(el, rot, rev) ==
    LET r == [k \in 1..3 |-> el[((k - 1 + rot) % 3) + 1]]
    IN  IF rev THEN <<r[3], r[2], r[1]>> ELSE r

\* the facets listed from position 1 + shift on, forwards or backwards
Listed(facets, shift, backwards) ==
    LET n == Len(facets)
    IN  [k \in 1..n |-> IF backwards THEN facets[((n - k + shift) % n) + 1]
                                      ELSE facets[((k - 1 + shift) % n) + 1]]

\* the outputs the primitive may produce for a cloud: listing v starts at facet
\* 1 + v, runs backwards when v is odd and starts every facet at its index
\* 1 + v % 3; the windings are reversed for every second facet, for all, or for none
QhullSimplices(pts) ==
    { [k \in 1..Len(QhullFacets(pts)) |->
          Wind(Listed(QhullFacets(pts), v, v % 2 = 1)[k], v % 3,
               (v % 3 = 0 /\ k % 2 = 0) \/ v % 3 = 1)]
      : v \in 0..MaxVariant }

\* hull.vertices: the indices of the hull's extreme points
QhullVertices(pts, simp) ==
    LET used == {simp[k][m] : k \in 1..Len(simp), m \in 1..3}
        RECURSIVE Asc(_)
        Asc(S) == IF S = {} THEN <<>>
                  ELSE LET lo == CHOOSE v \in S : \A w \in S : v <= w
                       IN  <<lo>> \o Asc(S \ {lo})
    IN  Asc(used)

\* hull.neighbors: for facet k and position m, the (0-based) index of the facet
\* across the edge opposite the m-th vertex
QhullNeighbors(simp) ==
    [k \in 1..Len(simp) |->
        [m \in 1..3 |->
            LET edge == {simp[k][x] : x \in (1..3) \ {m}}
            IN  (CHOOSE f \in 1..Len(simp) :
                    f # k /\ edge \subseteq {simp[f][x] : x \in 1..3}) - 1]]

(***************************************************************************)
(* State of a Gamut and of the calls made on it                            *)
(***************************************************************************)
VARIABLES
    pc,           \* where the program is: "new", "hulled", "ready", or inside a call
    data,         \* self.data: the point cloud the gamut was built from
    gamma,        \* constructor argument
    exp_center,   \* constructor argument `center`
    hull_points,  \* self.hull.points: the coordinates that were hulled
    vertices,     \* self.vertices
    simplices,    \* self.simplices (the same array as self.hull.simplices)
    neighbors,    \* self.neighbors
    center,       \* self.center, a pair <<numerator vector, denominator>>
    fix_runs,     \* how many times fix_orientation has run
    P,            \* feito_torres: the query point
    facet_i,      \* feito_torres: how many facets the loop has completed
    inclusion,    \* feito_torres: twice the accumulator
    v_plus,       \* feito_torres: list
    v_minus,      \* feito_torres: list
    nd_data,      \* is_inside: the query array
    indices,      \* is_inside: the index vector handed down the recursion
    bool_array,   \* is_inside: the result array
    stack,        \* traverse_ndarray: the frames of the recursion, innermost last
    visits,       \* how many times the running is_inside has handed each leaf to
                  \* feito_torres (a record of what has happened, kept for C30)
    ray_d,        \* intersectionpoint_on_line: argument d
    ray_center,   \* intersectionpoint_on_line: argument center
    shape_in,     \* the list of points handed to a predicate called on its own
                  \* (true_shape: points, in_line: line, in_triangle: triangle)
    threads,      \* the membership queries other callers have running, by caller
    result        \* what the last call returned ("none" while there is none)

gamut_vars == <<data, gamma, exp_center, hull_points, vertices, simplices, neighbors, center>>

query_vars == <<P, facet_i, inclusion, v_plus, v_minus>>

batch_vars == <<nd_data, indices, bool_array, stack, visits>>

ray_vars == <<ray_d, ray_center>>

vars ==
    <<pc, gamut_vars, fix_runs, query_vars, batch_vars, ray_vars, shape_in, threads, result>>

\* fix_orientation is a public method: the model lets it run this many times
MaxFixRuns == 2

(***************************************************************************)
(* Gamut.get_coordinates                                                   *)
(***************************************************************************)
get_coordinates(points, index_list) ==
    [k \in 1..Len(index_list) |-> points[index_list[k]]]

(***************************************************************************)
(* Gamut.center_of_mass: points.sum(0) / points.shape[0], kept as the pair *)
(* <<sum, count>>.  (It also shifts the array it was given, which is the   *)
(* fresh copy made by get_coordinates.)                                    *)
(***************************************************************************)
RECURSIVE SumTo(_, _)
SumTo(points, k) == IF k = 0 THEN origin ELSE Add(SumTo(points, k - 1), points[k])

center_of_mass(points) == <<SumTo(points, Len(points)), Len(points)>>

(***************************************************************************)
(* Gamut.fix_orientation                                                   *)
(***************************************************************************)
\* as the test would be with the comparison turned round
NeedsFixPositive(points, el, c) ==
    LET facet == get_coordinates(points, el)
        normal == Cross(Sub(facet[2], facet[1]), Sub(facet[3], facet[1]))
    IN  Dot(Sub(Scale(c[2], facet[1]), c[1]), normal) > 0

\* np.dot(facet[0] - c, normal) < 0, multiplied through by the denominator of c
NeedsFix(points, el, c) ==
    LET facet == get_coordinates(points, el)
        normal == Cross(Sub(facet[2], facet[1]), Sub(facet[3], facet[1]))
    IN  Dot(Sub(Scale(c[2], facet[1]), c[1]), normal) < 0

\* as fix_orientation would be if the three indices were rotated instead
SwapRotates(el) == <<el[3], el[1], el[2]>>

\* a = simplex[2]; simplex[2] = simplex[0]; simplex[0] = a
SwapFirstLast(el) == <<el[3], el[2], el[1]>>

\* as fix_orientation would be with the centre taken from the gamut's own data
fix_orientationAboutData(points, verts, simp) ==
    LET c == center_of_mass(get_coordinates(data, verts))
    IN  [k \in 1..Len(simp) |->
            IF NeedsFix(points, simp[k], c) THEN SwapFirstLast(simp[k]) ELSE simp[k]]

fix_orientation(points, verts, simp) ==
    LET c == center_of_mass(get_coordinates(points, verts))
    IN  [k \in 1..Len(simp) |->
            IF NeedsFix(points, simp[k], c) THEN SwapFirstLast(simp[k]) ELSE simp[k]]

(***************************************************************************)
(* Gamut.initialize_modified_convex_hull: point -= center;                 *)
(* point * (r ** gamma / r).  The model takes gamma = 2 and clouds whose   *)
(* radii about the centre are whole numbers, so that r ** gamma / r = r.   *)
(***************************************************************************)
MaxRadius == 8

HasRadius(v) == \E r \in 1..MaxRadius : r * r = Dot(v, v)

Radius(v) == CHOOSE r \in 1..MaxRadius : r * r = Dot(v, v)

ModifiedRadius(cloud, c) ==
    [i \in DOMAIN cloud |-> Scale(Radius(Sub(cloud[i], c)), Sub(cloud[i], c))]

(***************************************************************************)
(* Gamut.__init__ up to the choice of the hulling method                   *)
(***************************************************************************)
NoCall ==
    /\ P = origin
    /\ facet_i = 0
    /\ inclusion = 0
    /\ v_plus = <<>>
    /\ v_minus = <<>>
    /\ nd_data = <<>>
    /\ indices = <<>>
    /\ bool_array = <<>>
    /\ visits = <<>>
    /\ stack = <<>>
    /\ ray_d = origin
    /\ ray_center = origin
    /\ shape_in = <<>>
    /\ threads = <<>>
    /\ result = "none"

call_vars == <<query_vars, batch_vars, ray_vars, shape_in, result>>

\* the arguments of Gamut(sp, points, gamma, center), before __init__ has run
NewGamut(clouds) ==
    /\ pc = "new"
    /\ data \in clouds
    /\ gamma \in {1, 2}
    /\ exp_center \in Offsets
    /\ gamma = 1 => exp_center = origin          \* the default, unused
    /\ gamma # 1 => \A i \in DOMAIN data : HasRadius(Sub(data[i], exp_center))
    /\ hull_points = <<>>
    /\ vertices = <<>>
    /\ simplices = <<>>
    /\ neighbors = <<>>
    /\ center = <<>>
    /\ fix_runs = 0
    /\ NoCall

Init == NewGamut(Clouds)

\* the exception of the hull primitive leaves __init__: no Gamut is made
ConstructionFails ==
    /\ pc' = "failed"
    /\ result' = [raised |-> "QhullError"]
    /\ UNCHANGED <<hull_points, vertices, simplices, neighbors, center>>

\* as __init__ would be if the plain branch returned without fix_orientation
InitializeConvexHullOnly ==
    /\ pc = "new"
    /\ gamma = 1
    /\ \E simp \in QhullSimplices(data) :
          /\ hull_points' = data
          /\ vertices' = QhullVertices(data, simp)
          /\ simplices' = simp
          /\ neighbors' = QhullNeighbors(simp)
          /\ center' = center_of_mass(get_coordinates(data, QhullVertices(data, simp)))
    /\ pc' = "ready"
    /\ UNCHANGED <<threads, data, gamma, exp_center, fix_runs, call_vars>>

InitializeConvexHull ==
    /\ pc = "new"
    /\ gamma = 1
    /\ IF QhullFails(data, TRUE)
       THEN ConstructionFails
       ELSE /\ \E simp \in QhullSimplices(data) :
                  /\ hull_points' = data
                  /\ vertices' = QhullVertices(data, simp)
                  /\ simplices' = simp
                  /\ neighbors' = QhullNeighbors(simp)
                  /\ center' = center_of_mass(get_coordinates(data, QhullVertices(data, simp)))
            /\ pc' = "hulled"
            /\ result' = result
    /\ UNCHANGED <<threads, data, gamma, exp_center, fix_runs, query_vars, batch_vars, ray_vars,
                   shape_in>>

\* as the modified branch would be if it worked the centre out as the plain one does
InitializeModifiedConvexHullCentred ==
    /\ pc = "new"
    /\ gamma # 1
    /\ \E simp \in QhullSimplices(ModifiedRadius(data, exp_center)) :
          /\ hull_points' = ModifiedRadius(data, exp_center)
          /\ vertices' = QhullVertices(hull_points', simp)
          /\ simplices' = simp
          /\ neighbors' = QhullNeighbors(simp)
          /\ center' = center_of_mass(get_coordinates(hull_points', vertices'))
    /\ pc' = "hulled"
    /\ UNCHANGED <<threads, data, gamma, exp_center, fix_runs, call_vars>>

InitializeModifiedConvexHull ==
    /\ pc = "new"
    /\ gamma # 1
    /\ IF QhullFails(ModifiedRadius(data, exp_center), FALSE)
       THEN ConstructionFails
       ELSE /\ \E simp \in QhullSimplices(ModifiedRadius(data, exp_center)) :
                  /\ hull_points' = ModifiedRadius(data, exp_center)
                  /\ vertices' = QhullVertices(hull_points', simp)
                  /\ simplices' = simp
                  /\ neighbors' = QhullNeighbors(simp)
                  /\ center' = <<exp_center, 1>>
            /\ pc' = "hulled"
            /\ result' = result
    /\ UNCHANGED <<threads, data, gamma, exp_center, fix_runs, query_vars, batch_vars, ray_vars,
                   shape_in>>

\* as the run would be if it kept the centre it works out in self.center
FixOrientationKeepingCentre ==
    /\ pc = "hulled"
    /\ simplices' = fix_orientation(hull_points, vertices, simplices)
    /\ center' = center_of_mass(get_coordinates(hull_points, vertices))
    /\ fix_runs' = fix_runs + 1
    /\ pc' = "ready"
    /\ UNCHANGED <<threads, data, gamma, exp_center, hull_points, vertices, neighbors, call_vars>>

\* the last statement of __init__
FixOrientation ==
    /\ pc = "hulled"
    /\ simplices' = fix_orientation(hull_points, vertices, simplices)
    /\ fix_runs' = fix_runs + 1
    /\ pc' = "ready"
    /\ UNCHANGED <<threads, data, gamma, exp_center, hull_points, vertices, neighbors, center,
                   call_vars>>

\* a later call of the method on the constructed gamut
FixOrientationAgain ==
    /\ pc = "ready"
    /\ fix_runs < MaxFixRuns
    /\ simplices' = fix_orientation(hull_points, vertices, simplices)
    /\ fix_runs' = fix_runs + 1
    /\ UNCHANGED <<threads, pc, data, gamma, exp_center, hull_points, vertices, neighbors, center,
                   call_vars>>

(***************************************************************************)
(* Gamut.feito_torres: one pass of the loop over self.simplices.           *)
(* st is the loop's state [inclusion, v_plus, v_minus, returned]; the      *)
(* lists hold numbers and np.in1d looks a number up by value.              *)
(***************************************************************************)
InList(x, list) == \E k \in 1..Len(list) : list[k] = x

NotRecorded(sgn, x, st) ==
    \/ sgn > 0 /\ ~InList(x, st.v_plus)
    \/ sgn < 0 /\ ~InList(x, st.v_minus)

\* inclusion += weight2 / 2 * sgn, and x is appended when it is given
Credit(st, sgn, weight2, record, x) ==
    [st EXCEPT !.inclusion = @ + weight2 * sgn,
               !.v_minus = IF record /\ sgn < 0 THEN Append(@, x) ELSE @,
               !.v_plus = IF record /\ ~(sgn < 0) THEN Append(@, x) ELSE @]

\* the simplexes of one facet that the loop hands to interior, in the order of
\* the source: the facet (line 163), the original edges of its first and last
\* vertex (171, 182), the three original triangles (198-200), the original edge
\* of the middle vertex (206) and the original tetrahedron (216)
Simplex(k, facet) ==
    CASE k = 1 -> facet
      [] k = 2 -> <<origin, facet[1]>>
      [] k = 3 -> <<origin, facet[3]>>
      [] k = 4 -> <<origin, facet[1], facet[2]>>
      [] k = 5 -> <<origin, facet[2], facet[3]>>
      [] k = 6 -> <<origin, facet[3], facet[1]>>
      [] k = 7 -> <<origin, facet[2]>>
      [] k = 8 -> <<origin, facet[1], facet[2], facet[3]>>

\* the third argument of those calls
TrueInterior(k) == k \in {1, 4, 5, 6, 8}

\* the answers of interior for one facet, each worked out when it is asked for
Interiors(facet, Q) == [k \in 1..8 |-> interior(Simplex(k, facet), Q, TrueInterior(k))]

\* lines 171-191: the original edge of the facet's first (k = 1) or last (k = 3) vertex
OriginalEdge(st, el, facet, k, on_edge) ==
    LET sign_face == sign(<<origin, facet[1], facet[2], facet[3]>>)
    IN  IF on_edge /\ NotRecorded(sign_face, el[k], st)
        THEN Credit(st, sign_face, 2, TRUE, el[k])
        ELSE st

\* what the source writes as vertex[j], with vertex = facet[j] and j = 1:
\* the second coordinate of the middle vertex
MiddleKey(el, facet) == facet[2][2]

\* as the branches would be if the first added the whole sign
RemainingVerticesWholeSign(st, el, facet, inside) ==
    LET sign_tetra == sign(<<origin, facet[1], facet[2], facet[3]>>)
        key == MiddleKey(el, facet)
    IN  IF \E k \in 4..6 : inside[k]
        THEN Credit(st, sign_tetra, 2, FALSE, key)
        ELSE IF inside[7] /\ NotRecorded(sign_tetra, key, st)
        THEN Credit(st, sign_tetra, 2, TRUE, key)
        ELSE IF inside[8]
        THEN Credit(st, sign_tetra, 2, FALSE, key)
        ELSE st

\* lines 193-219: the remaining vertices; a triangle has one, and j = 1
RemainingVertices(st, el, facet, inside) ==
    LET sign_tetra == sign(<<origin, facet[1], facet[2], facet[3]>>)
        key == MiddleKey(el, facet)
    IN  IF \E k \in 4..6 : inside[k]
        THEN Credit(st, sign_tetra, 1, FALSE, key)
        ELSE IF inside[7] /\ NotRecorded(sign_tetra, key, st)
        THEN Credit(st, sign_tetra, 2, TRUE, key)
        ELSE IF inside[8]
        THEN Credit(st, sign_tetra, 2, FALSE, key)
        ELSE st

\* lines 163-219 for one facet, given the answers of interior
FacetPass(st, el, facet, inside) ==
    IF inside[1]
    THEN [st EXCEPT !.returned = TRUE]
    ELSE RemainingVertices(
             OriginalEdge(OriginalEdge(st, el, facet, 1, inside[2]),
                          el, facet, 3, inside[3]),
             el, facet, inside)

FeitoFacet(st, points, el, Q) ==
    FacetPass(st, el, get_coordinates(points, el),
              Interiors(get_coordinates(points, el), Q))

FeitoStart == [inclusion |-> 0, v_plus |-> <<>>, v_minus |-> <<>>, returned |-> FALSE]

\* the loop stops at the facet that returned True
FeitoNext(st, points, el, Q) == IF st.returned THEN st ELSE FeitoFacet(st, points, el, Q)

RECURSIVE FeitoLoop(_, _, _, _)
FeitoLoop(points, simp, Q, k) ==
    IF k = 0 THEN FeitoStart
    ELSE FeitoNext(FeitoLoop(points, simp, Q, k - 1), points, simp[k], Q)

\* lines 165 and 221-224
Verdict(st) == st.returned \/ st.inclusion > 0

\* the value feito_torres(P) returns
feito_torres(points, simp, Q) == Verdict(FeitoLoop(points, simp, Q, Len(simp)))

(***************************************************************************)
(* A call feito_torres(P), one facet of the loop at a time                 *)
(***************************************************************************)
QueryPoints ==
    LET R == (0 - 1)..(MaxOffset + 1)
    IN  {<<x, y, z>> : x \in R, y \in R, z \in R}

FeitoCall ==
    /\ pc = "ready"
    /\ \E q \in QueryPoints : P' = q
    /\ pc' = "feito_torres"
    /\ UNCHANGED <<threads, gamut_vars, fix_runs, facet_i, inclusion, v_plus, v_minus, batch_vars,
                   ray_vars, shape_in, result>>

\* the loop's variables after the pass st of one facet
FeitoStepTo(st) ==
    /\ inclusion' = st.inclusion
    /\ v_plus' = st.v_plus
    /\ v_minus' = st.v_minus
    /\ IF st.returned
       THEN /\ result' = TRUE
            /\ pc' = "feito_torres returned"
            /\ facet_i' = facet_i
       ELSE /\ result' = result
            /\ pc' = pc
            /\ facet_i' = facet_i + 1

\* as the pass would be if it turned the facet it has read: el is a view of a
\* row of self.simplices, and writing to it writes to the hull
FeitoStepTurningFacet ==
    /\ pc = "feito_torres"
    /\ facet_i < Len(simplices)
    /\ FeitoStepTo(FeitoFacet([inclusion |-> inclusion, v_plus |-> v_plus,
                               v_minus |-> v_minus, returned |-> FALSE],
                              hull_points, simplices[facet_i + 1], P))
    /\ simplices' = [simplices EXCEPT ![facet_i + 1] = SwapFirstLast(@)]
    /\ UNCHANGED <<threads, data, gamma, exp_center, hull_points, vertices, neighbors, center,
                   fix_runs, P, batch_vars, ray_vars, shape_in>>

FeitoStep ==
    /\ pc = "feito_torres"
    /\ facet_i < Len(simplices)
    /\ FeitoStepTo(FeitoFacet([inclusion |-> inclusion, v_plus |-> v_plus,
                               v_minus |-> v_minus, returned |-> FALSE],
                              hull_points, simplices[facet_i + 1], P))
    /\ UNCHANGED <<threads, gamut_vars, fix_runs, P, batch_vars, ray_vars, shape_in>>

FeitoEnd ==
    /\ pc = "feito_torres"
    /\ facet_i = Len(simplices)
    /\ result' = (inclusion > 0)
    /\ pc' = "feito_torres returned"
    /\ UNCHANGED <<threads, gamut_vars, fix_runs, query_vars, batch_vars, ray_vars, shape_in>>

\* the caller takes the returned value; the gamut is ready for the next call
Returned ==
    {"feito_torres returned", "is_inside returned", "intersectionpoint_on_line returned"}

Return ==
    /\ pc \in Returned
    /\ pc' = "ready"
    /\ P' = origin
    /\ facet_i' = 0
    /\ inclusion' = 0
    /\ v_plus' = <<>>
    /\ v_minus' = <<>>
    /\ nd_data' = <<>>
    /\ indices' = <<>>
    /\ bool_array' = <<>>
    /\ stack' = <<>>
    /\ visits' = <<>>
    /\ ray_d' = origin
    /\ ray_center' = origin
    /\ shape_in' = <<>>
    /\ result' = "none"
    /\ UNCHANGED <<threads, gamut_vars, fix_runs>>

\* Gamut.__init__
Construct == InitializeConvexHull \/ InitializeModifiedConvexHull \/ FixOrientation

Next == Construct \/ FeitoCall \/ FeitoStep \/ FeitoEnd \/ Return

Spec == Init /\ [][Next]_vars

\* construction, and fix_orientation called again on the constructed gamut
NextConstruct == Construct \/ FixOrientationAgain

SpecConstruct == Init /\ [][NextConstruct]_vars

(***************************************************************************)
(* Gamut.is_inside and Gamut.traverse_ndarray.  An array of shape          *)
(* (d1, ..., dk, 3) is a record [shape |-> <<d1, ..., dk>>, at |-> a       *)
(* function from the index tuples (counted from 0) to 3-vectors]; a single *)
(* point is the array of shape <<>>.                                       *)
(***************************************************************************)
MaxRank == 2      \* k, the number of leading dimensions
MaxAxis == 2      \* the length of a dimension

IndexTuples(shape) ==
    {idx \in [1..Len(shape) -> 0..(MaxAxis - 1)] : \A j \in 1..Len(shape) : idx[j] < shape[j]}

Shapes == UNION {[1..k -> 1..MaxAxis] : k \in 0..MaxRank}

\* the points of a batch: one that feito_torres finds inside and one it does not
BatchPoints == {<<0, 0, 0>>, <<2, 0, 0>>}

\* arrays that hold one point everywhere but, possibly, at one index
QueryArrays ==
    UNION {{[shape |-> shape,
             at |-> [idx \in IndexTuples(shape) |-> IF idx = pos THEN s ELSE b]] :
               pos \in IndexTuples(shape), b \in BatchPoints, s \in BatchPoints} :
           shape \in Shapes}

\* lines 133-136: the number of cells of indices that are not -1
RECURSIVE CountSet(_, _)
CountSet(idx, k) ==
    IF k = 0 THEN 0 ELSE CountSet(idx, k - 1) + (IF idx[k] # (0 - 1) THEN 1 ELSE 0)

\* as the count would be if it were never taken
CurrDimFirst(idx) == 0

CurrDim(idx) == CountSet(idx, Len(idx))

\* bool_array[tuple(indices)]: numpy counts a negative index from the end
WrapIndex(idx, shape) ==
    [j \in 1..Len(idx) |-> IF idx[j] < 0 THEN shape[j] + idx[j] ELSE idx[j]]

\* a frame of traverse_ndarray: nda is nd_data[path], a leaf when path is complete
IsLeaf(frame) == Len(frame.path) = Len(nd_data.shape)

Top == stack[Len(stack)]

Pop == SubSeq(stack, 1, Len(stack) - 1)

\* the caller's frame after the callee returned: numb_of_iterations += 1
Resume(st) ==
    IF st = <<>> THEN st ELSE [st EXCEPT ![Len(st)].it = @ + 1]

\* lines 111-112: one point
IsInsideOne ==
    /\ pc = "ready"
    /\ \E nd \in QueryArrays :
          /\ nd.shape = <<>>
          /\ nd_data' = nd
          /\ result' = [shape |-> <<1>>,
                        at |-> [idx \in {<<0>>} |->
                                   feito_torres(hull_points, simplices, nd.at[<<>>])]]
    /\ pc' = "is_inside returned"
    /\ UNCHANGED <<threads, gamut_vars, fix_runs, query_vars, indices, bool_array, stack, visits,
                   ray_vars, shape_in>>

\* lines 115-117, and the entry of the outermost traverse_ndarray
IsInsideCall ==
    /\ pc = "ready"
    /\ \E nd \in QueryArrays :
          /\ nd.shape # <<>>
          /\ nd_data' = nd
          /\ indices' = [j \in 1..Len(nd.shape) |-> 0 - 1]
          /\ bool_array' = [shape |-> nd.shape, at |-> [idx \in IndexTuples(nd.shape) |-> FALSE]]
          /\ stack' = <<[path |-> <<>>, curr_dim |-> CurrDim(indices'), it |-> 0]>>
          /\ visits' = [idx \in IndexTuples(nd.shape) |-> 0]
    /\ pc' = "traverse_ndarray"
    /\ UNCHANGED <<threads, gamut_vars, fix_runs, query_vars, ray_vars, shape_in, result>>

\* lines 139-141: the next sub-array of the current dimension, and the callee's entry
TraverseIterate ==
    /\ pc = "traverse_ndarray"
    /\ ~IsLeaf(Top)
    /\ Top.it < nd_data.shape[Len(Top.path) + 1]
    /\ indices' = [indices EXCEPT ![Top.curr_dim + 1] = Top.it]
    /\ LET path == Append(Top.path, Top.it)
       IN  stack' = Append(stack, [path |-> path,
                                   curr_dim |-> IF Len(path) = Len(nd_data.shape)
                                                THEN 0 ELSE CurrDim(indices'),
                                   it |-> 0])
    /\ UNCHANGED <<threads, pc, gamut_vars, fix_runs, query_vars, nd_data, bool_array, visits,
                   ray_vars, shape_in, result>>

\* line 146
TraverseLeaf ==
    /\ pc = "traverse_ndarray"
    /\ IsLeaf(Top)
    /\ bool_array' = [bool_array EXCEPT !.at[WrapIndex(indices, nd_data.shape)] =
                         feito_torres(hull_points, simplices, nd_data.at[Top.path])]
    /\ stack' = Resume(Pop)
    /\ visits' = [visits EXCEPT ![Top.path] = @ + 1]
    /\ UNCHANGED <<threads, pc, gamut_vars, fix_runs, query_vars, nd_data, indices, ray_vars,
                   shape_in, result>>

\* as the end of the loop would be without line 143
TraverseExitKeeping ==
    /\ pc = "traverse_ndarray"
    /\ ~IsLeaf(Top)
    /\ Top.it = nd_data.shape[Len(Top.path) + 1]
    /\ stack' = Resume(Pop)
    /\ IF Pop = <<>>
       THEN /\ pc' = "is_inside returned"
            /\ result' = bool_array
       ELSE UNCHANGED <<pc, result>>
    /\ UNCHANGED <<threads, gamut_vars, fix_runs, query_vars, nd_data, indices, bool_array, visits,
                   ray_vars, shape_in>>

\* line 143, and line 119 when the outermost call dies
TraverseExit ==
    /\ pc = "traverse_ndarray"
    /\ ~IsLeaf(Top)
    /\ Top.it = nd_data.shape[Len(Top.path) + 1]
    /\ indices' = [indices EXCEPT ![Top.curr_dim + 1] = 0 - 1]
    /\ stack' = Resume(Pop)
    /\ IF Pop = <<>>
       THEN /\ pc' = "is_inside returned"
            /\ result' = bool_array
       ELSE UNCHANGED <<pc, result>>
    /\ UNCHANGED <<threads, gamut_vars, fix_runs, query_vars, nd_data, bool_array, visits,
                   ray_vars, shape_in>>

IsInside == IsInsideOne \/ IsInsideCall \/ TraverseIterate \/ TraverseLeaf \/ TraverseExit

InitBatch == NewGamut({Tetrahedron(origin)})

NextBatch == InitializeConvexHull \/ FixOrientation \/ IsInside \/ Return

SpecBatch == InitBatch /\ [][NextBatch]_vars

(***************************************************************************)
(* Gamut.find_plane, get_alpha, line_alpha, intersectionpoint_on_line.     *)
(* find_plane divides the normal n2 by its norm and get_alpha divides two  *)
(* numbers that both carry that factor, so alpha is the quotient of the    *)
(* same two numbers taken with n2 itself.  alpha is kept as the pair       *)
(* <<numerator, denominator>> and a point of the line as the pair          *)
(* <<vector, denominator>>.                                                *)
(***************************************************************************)
\* [n2, np.dot(points[1], n2)], the common factor 1 / nnorm left out
find_plane(points) ==
    LET v1 == Sub(points[3], points[1])
        v2 == Sub(points[2], points[1])
        n2 == Cross(v1, v2)
    IN  <<n2[1], n2[2], n2[3], Dot(points[2], n2)>>

RECURSIVE Gcd(_, _)
Gcd(a, b) == IF b = 0 THEN a ELSE Gcd(b, a % b)

\* the float a / b as a fraction in lowest terms with a positive denominator;
\* <<a, 0>> stands for the inf or nan of a division by zero
Quotient(a, b) ==
    IF b = 0 THEN <<a, 0>>
    ELSE LET g == Gcd(Abs(a), Abs(b)) * Sgn(b)
         IN  <<a \div g, b \div g>>

get_alpha(d, c, n) ==
    Quotient(n[4] - c[1] * n[1] - c[2] * n[2] - c[3] * n[3],
             d[1] * n[1] - c[1] * n[1] + d[2] * n[2] - c[2] * n[2]
                 + d[3] * n[3] - c[3] * n[3])

\* 0 <= x <= 1, which inf and nan fail
InUnitRange(x) == x[2] > 0 /\ 0 <= x[1] /\ x[1] <= x[2]

\* as line_alpha would be with d and center exchanged
line_alpha_from_d(alpha, d, c) ==
    <<Add(Scale(alpha[1], c), Scale(alpha[2] - alpha[1], d)), alpha[2]>>

\* alpha * d + center - alpha * center
line_alpha(alpha, d, c) ==
    <<Add(Scale(alpha[1], d), Scale(alpha[2] - alpha[1], c)), alpha[2]>>

\* in_triangle(point, X) for X = at[1] / at[2]; in_triangle compares
\* homogeneous forms of equal degree, so both are scaled by at[2] > 0
InTriangleAt(point, at) ==
    in_triangle([k \in 1..3 |-> Scale(at[2], point[k])], at[1], FALSE)

\* lines 751-753 on the alpha x of one facet
ValidAlpha(point, x, d, c) == InUnitRange(x) /\ InTriangleAt(point, line_alpha(x, d, c))

\* lines 744-753: the list alpha after the first k facets
RECURSIVE AlphaList(_, _, _, _, _)
AlphaList(new_points, simp, d, c, k) ==
    IF k = 0 THEN <<>>
    ELSE LET point == get_coordinates(new_points, simp[k])
             x == get_alpha(d, c, find_plane(point))
             alpha == AlphaList(new_points, simp, d, c, k - 1)
         IN  IF ValidAlpha(point, x, d, c) THEN Append(alpha, x) ELSE alpha

\* as the end would be if an empty list fell back on the point at alpha = 0
NearestPointOrCenter(a, d, c) ==
    [nearest_point |-> line_alpha(IF a = <<>> THEN <<0, 1>> ELSE a[1], d, c)]

\* lines 754-757: np.sort returns a sorted copy, which is dropped; a[0] of an
\* empty array raises IndexError
NearestPoint(a, d, c) ==
    IF a = <<>> THEN [raised |-> "IndexError"]
    ELSE [nearest_point |-> line_alpha(a[1], d, c)]

intersectionpoint_on_line(new_points, simp, d, c) ==
    NearestPoint(AlphaList(new_points, simp, d, c, Len(simp)), d, c)

MaxHalfWidth == 2

\* the cube of half-width w centred at the origin
HalfWidthCube(w) == [i \in 0..7 |-> Scale(w, Cube(origin)[i])]

OriginCubes == {HalfWidthCube(w) : w \in 1..MaxHalfWidth}

\* the end points of the segment: along the x axis through the cube and beside it
RayPoints ==
    {<<x, y, z>> : x \in (0 - 2 * MaxHalfWidth)..(2 * MaxHalfWidth), y \in 0..1, z \in 0..1}

\* float64 holds a fraction exactly when its denominator is a power of two
IsBinaryFraction(x) == \E e \in 0..5 : x[2] = 2 ^ e

\* the segments whose alphas in [0,1] are all binary fractions: on them numpy
\* computes every alpha and every crossing point without rounding
ExactSegment(new_points, simp, d, c) ==
    \A k \in 1..Len(simp) :
        LET x == get_alpha(d, c, find_plane(get_coordinates(new_points, simp[k])))
        IN  InUnitRange(x) => IsBinaryFraction(x)

IntersectionpointOnLine ==
    /\ pc = "ready"
    /\ \E d \in RayPoints, c \in RayPoints :
          /\ ExactSegment(data, simplices, d, c)
          /\ ray_d' = d
          /\ ray_center' = c
          /\ result' = intersectionpoint_on_line(data, simplices, d, c)
    /\ pc' = "intersectionpoint_on_line returned"
    /\ UNCHANGED <<threads, gamut_vars, fix_runs, query_vars, batch_vars, shape_in>>

InitRay == NewGamut(OriginCubes)

NextRay == InitializeConvexHull \/ FixOrientation \/ IntersectionpointOnLine \/ Return

SpecRay == InitRay /\ [][NextRay]_vars

(***************************************************************************)
(* Gamut.true_shape as a function of its argument: it reads nothing of the *)
(* gamut.  The arguments are lists of up to MaxShapeLen points of one      *)
(* plane, repeated points included.                                        *)
(***************************************************************************)
MaxShapeLen == 5

\* a triangle, the point (1,1) strictly inside it, and (2,2), which has (1,1)
\* half way to (0,0)
PlaneCoords == {<<0, 0>>, <<2, 1>>, <<1, 2>>, <<1, 1>>, <<2, 2>>}

PlanePoints(e1, e2) == {Add(Scale(uv[1], e1), Scale(uv[2], e2)) : uv \in PlaneCoords}

\* a plane that holds the direction (1,1,1) and one that does not
ShapePlanes == {PlanePoints(<<1, 1, 0>>, <<0, 0, 1>>), PlanePoints(<<1, 0, 0>>, <<0, 1, 0>>)}

ShapeInputs == UNION {[1..n -> plane] : n \in 1..MaxShapeLen, plane \in ShapePlanes}

InitShape ==
    /\ pc = "true_shape"
    /\ shape_in \in ShapeInputs
    /\ data = <<>>
    /\ gamma = 1
    /\ exp_center = origin
    /\ hull_points = <<>>
    /\ vertices = <<>>
    /\ simplices = <<>>
    /\ neighbors = <<>>
    /\ center = <<>>
    /\ fix_runs = 0
    /\ P = origin
    /\ facet_i = 0
    /\ inclusion = 0
    /\ v_plus = <<>>
    /\ v_minus = <<>>
    /\ nd_data = <<>>
    /\ indices = <<>>
    /\ bool_array = <<>>
    /\ visits = <<>>
    /\ stack = <<>>
    /\ ray_d = origin
    /\ ray_center = origin
    /\ threads = <<>>
    /\ result = "none"

TrueShape ==
    /\ pc = "true_shape"
    /\ result' = true_shape(shape_in)
    /\ pc' = "true_shape returned"
    /\ UNCHANGED <<threads, gamut_vars, fix_runs, query_vars, batch_vars, ray_vars, shape_in>>

SpecShape == InitShape /\ [][TrueShape]_vars

(***************************************************************************)
(* Geometry the claims are stated in, independent of the predicates above  *)
(***************************************************************************)
FacetIds == 1..Len(simplices)

\* the side of the plane of facet k on which q lies: the sign of
\* (q - f0) . ((f1 - f0) x (f2 - f0))
SideOfFacet(k, q) ==
    LET f == get_coordinates(hull_points, simplices[k])
    IN  Sgn(Dot(Sub(q, f[1]), Cross(Sub(f[2], f[1]), Sub(f[3], f[1]))))

\* the side on which the centre of mass of the hull's vertices lies
CentreSideOfFacet(k) ==
    LET f == get_coordinates(hull_points, simplices[k])
        c == center_of_mass(get_coordinates(hull_points, vertices))
    IN  Sgn(Dot(Sub(c[1], Scale(c[2], f[1])), Cross(Sub(f[2], f[1]), Sub(f[3], f[1]))))

StrictlyInsideHull(q) == \A k \in FacetIds : SideOfFacet(k, q) = CentreSideOfFacet(k)

InsideOrOnHull(q) == \A k \in FacetIds : SideOfFacet(k, q) \in {0, CentreSideOfFacet(k)}

OriginPlace ==
    IF StrictlyInsideHull(origin) THEN "inside"
    ELSE IF InsideOrOnHull(origin) THEN "boundary" ELSE "outside"

IsCubeHull == Len(simplices) = 12

BeyondExtent(q) ==
    \E a \in 1..3 :
        \/ \A i \in DOMAIN hull_points : q[a] > hull_points[i][a]
        \/ \A i \in DOMAIN hull_points : q[a] < hull_points[i][a]

IsHullVertex(q) == \E k \in 1..Len(vertices) : hull_points[vertices[k]] = q

IsEdgeMidpoint(q) ==
    \E k \in FacetIds : \E m, n \in 1..3 :
        /\ m < n
        /\ Scale(2, q) = Add(hull_points[simplices[k][m]], hull_points[simplices[k][n]])

FeitoReturned == pc = "feito_torres returned"

(***************************************************************************)
(* C1: for every oriented hull and every query point strictly inside it,   *)
(* feito_torres returns True, wherever the origin lies.                    *)
(***************************************************************************)
C1_StrictlyInsideIsTrue ==
    (FeitoReturned /\ StrictlyInsideHull(P)) => result = TRUE

(***************************************************************************)
(* C2: for a cube hull, feito_torres returns False for every query point   *)
(* with a coordinate strictly beyond the cube's extent.                    *)
(***************************************************************************)
C2_BeyondCubeIsFalse ==
    (FeitoReturned /\ IsCubeHull /\ BeyondExtent(P)) => result = FALSE

(***************************************************************************)
(* C3: feito_torres returns True for a query point equal to a hull vertex. *)
(***************************************************************************)
C3_VertexIsTrue ==
    (FeitoReturned /\ IsHullVertex(P)) => result = TRUE

(***************************************************************************)
(* C4: feito_torres returns True for the midpoint of a hull edge, in       *)
(* whatever order the facets are listed.                                   *)
(***************************************************************************)
C4_EdgeMidpointIsTrue ==
    (FeitoReturned /\ IsEdgeMidpoint(P)) => result = TRUE

(***************************************************************************)
(* C5: is_inside on an array of shape (d1, ..., dk, 3), k >= 1, returns a  *)
(* boolean array of shape (d1, ..., dk) whose entry at every multi-index   *)
(* is feito_torres of the 3-vector at that multi-index.                    *)
(***************************************************************************)
IsInsideReturned == pc = "is_inside returned" /\ nd_data.shape # <<>>

C5_BatchMirrorsScalar ==
    IsInsideReturned =>
        /\ result.shape = nd_data.shape
        /\ DOMAIN result.at = IndexTuples(nd_data.shape)
        /\ \A idx \in IndexTuples(nd_data.shape) :
              result.at[idx] = feito_torres(hull_points, simplices, nd_data.at[idx])

\* a 2 x 2 batch whose answers differ between two positions
C5_Witness ==
    /\ IsInsideReturned
    /\ nd_data.shape = <<2, 2>>
    /\ result.at[<<0, 1>>] = TRUE
    /\ result.at[<<1, 0>>] = FALSE
    /\ result.at[<<1, 1>>] = FALSE

(***************************************************************************)
(* C6: after construction, plain or radius-modified, every facet           *)
(* (i0, i1, i2) of simplices faces outward: with c the centre of mass of   *)
(* the hull's vertex coordinates,                                          *)
(* (p[i0] - c) . ((p[i1] - p[i0]) x (p[i2] - p[i0])) >= 0.                 *)
(***************************************************************************)
C6_FacetsOutward ==
    pc = "ready" => \A k \in FacetIds : CentreSideOfFacet(k) <= 0

\* a radius-modified gamut whose constructor had facets to turn
C6_Witness ==
    /\ pc = "ready"
    /\ gamma # 1
    /\ simplices \notin QhullSimplices(hull_points)

(***************************************************************************)
(* C7: fix_orientation run again on the hull it has oriented changes no    *)
(* facet's vertex order.                                                   *)
(***************************************************************************)
C7_FixOrientationIdempotent ==
    [][FixOrientationAgain => simplices' = simplices]_vars

\* the second run happened on a hull whose first run had facets to turn
C7_Witness ==
    /\ fix_runs = 2
    /\ simplices \notin QhullSimplices(hull_points)

(***************************************************************************)
(* C8: true_shape of 4 coplanar points, one strictly inside the triangle   *)
(* of the other 3, is exactly those 3; of 3 points, one on the segment     *)
(* between the other two, exactly the 2 end points; a point given more     *)
(* than once counts once in every case.                                    *)
(***************************************************************************)
SetOf(seq) == {seq[i] : i \in DOMAIN seq}

StrictlyInTriangle(q, a, b, c) ==
    LET n == Cross(Sub(b, a), Sub(c, a))
    IN  /\ Dot(n, n) > 0
        /\ Dot(Sub(q, a), n) = 0
        /\ Dot(Cross(Sub(b, a), Sub(q, a)), n) > 0
        /\ Dot(Cross(Sub(c, b), Sub(q, b)), n) > 0
        /\ Dot(Cross(Sub(a, c), Sub(q, c)), n) > 0

StrictlyBetween(q, a, b) ==
    /\ Cross(Sub(q, a), Sub(b, a)) = origin
    /\ Dot(Sub(q, a), Sub(b, a)) > 0
    /\ Dot(Sub(q, b), Sub(a, b)) > 0

\* the points of u that the claim says are dropped
Enclosed(u) ==
    IF Cardinality(u) = 4
    THEN {q \in u : \E a, b, c \in u \ {q} : StrictlyInTriangle(q, a, b, c)}
    ELSE IF Cardinality(u) = 3
    THEN {q \in u : \E a, b \in u \ {q} : StrictlyBetween(q, a, b)}
    ELSE {}

TrueShapeReturned == pc = "true_shape returned"

C8_TrueShapeReduces ==
    TrueShapeReturned =>
        /\ Len(result) = Cardinality(SetOf(result))
        /\ Enclosed(SetOf(shape_in)) # {} =>
              SetOf(result) = SetOf(shape_in) \ Enclosed(SetOf(shape_in))

\* five points given, one of them twice, one strictly inside the other three
C8_Witness ==
    /\ TrueShapeReturned
    /\ Len(shape_in) = 5
    /\ Cardinality(SetOf(shape_in)) = 4
    /\ Enclosed(SetOf(shape_in)) # {}
    /\ Len(result) = 3

(***************************************************************************)
(* C9: intersectionpoint_on_line returns the crossing with the smallest    *)
(* alpha among the facets whose crossing is valid, in whatever order the   *)
(* facets are listed, also when center lies outside the hull and the       *)
(* segment crosses it twice.                                               *)
(***************************************************************************)
RayReturned == pc = "intersectionpoint_on_line returned"

AlphaOf(k) ==
    get_alpha(ray_d, ray_center, find_plane(get_coordinates(data, simplices[k])))

ValidFacets ==
    {k \in FacetIds :
        ValidAlpha(get_coordinates(data, simplices[k]), AlphaOf(k), ray_d, ray_center)}

AlphaLessEq(x, y) == x[1] * y[2] <= y[1] * x[2]

\* center + x * (d - center) as <<vector, denominator>>
PointAt(x) == <<Add(Scale(x[2], ray_center), Scale(x[1], Sub(ray_d, ray_center))), x[2]>>

SamePoint(a, b) == Scale(b[2], a[1]) = Scale(a[2], b[1])

C9_SmallestAlphaReturned ==
    (RayReturned /\ ValidFacets # {}) =>
        \E k \in ValidFacets :
            /\ \A m \in ValidFacets : AlphaLessEq(AlphaOf(k), AlphaOf(m))
            /\ "nearest_point" \in DOMAIN result
            /\ SamePoint(result.nearest_point, PointAt(AlphaOf(k)))

(***************************************************************************)
(* C10: for a cube centred at the origin with half-width w, center the     *)
(* cube's centroid and a target point straight out the +x face,            *)
(* intersectionpoint_on_line returns (w, 0, 0).                            *)
(***************************************************************************)
HalfWidth == data[7][1]

StraightOutPlusX ==
    /\ RayReturned
    /\ data \in OriginCubes
    /\ Scale(center[2], ray_center) = center[1]
    /\ ray_d[1] >= HalfWidth
    /\ ray_d[2] = ray_center[2]
    /\ ray_d[3] = ray_center[3]

C10_PlusXFaceCentre ==
    StraightOutPlusX =>
        /\ "nearest_point" \in DOMAIN result
        /\ SamePoint(result.nearest_point, <<<<HalfWidth, 0, 0>>, 1>>)

\* half-width 2 and a target beyond the face
C10_Witness ==
    /\ StraightOutPlusX
    /\ HalfWidth = 2
    /\ ray_d = <<4, 0, 0>>
    /\ "nearest_point" \in DOMAIN result

(***************************************************************************)
(* C11: when no facet is crossed by the segment from center to d at an     *)
(* alpha in [0,1] inside the facet's triangle, intersectionpoint_on_line   *)
(* fails: an error reaches the caller (the code's is the IndexError of     *)
(* a[0] on the empty list of alphas, which stands for the                  *)
(* NoIntersectionError of the specification) and no point is returned.     *)
(***************************************************************************)
\* the segment from ray_center to ray_d meets the plane of facet k at
\* alpha = num / den; the crossing point times |den| is at
CrossingOfFacet(k) ==
    LET f == get_coordinates(data, simplices[k])
        n == Cross(Sub(f[2], f[1]), Sub(f[3], f[1]))
        den == Dot(Sub(ray_d, ray_center), n)
        num == Dot(Sub(f[1], ray_center), n)
    IN  [n |-> n, f |-> f, num |-> num * Sgn(den), den |-> Abs(den),
         at |-> Add(Scale(Abs(den), ray_center),
                    Scale(num * Sgn(den), Sub(ray_d, ray_center)))]

\* X = at / den is on the inner side of, or on, the edge from a to b
InnerSide(x, a, b) ==
    Dot(Cross(Sub(b, a), Sub(x.at, Scale(x.den, a))), x.n) >= 0

CrossesFacet(k) ==
    LET x == CrossingOfFacet(k)
    IN  /\ x.den > 0
        /\ 0 <= x.num
        /\ x.num <= x.den
        /\ InnerSide(x, x.f[1], x.f[2])
        /\ InnerSide(x, x.f[2], x.f[3])
        /\ InnerSide(x, x.f[3], x.f[1])

NoCrossing == \A k \in FacetIds : ~CrossesFacet(k)

FlatAbove ==
    [i \in 0..3 |-> CASE i = 0 -> <<3, 0, 4>>
                      [] i = 1 -> <<0, 3, 4>>
                      [] i = 2 -> <<-3, 0, 4>>
                      [] i = 3 -> <<0, 0, 4>>]

\* four points of the plane z = 0, which holds the origin; radii 5, 5, 5, 3
FlatThrough ==
    [i \in 0..3 |-> CASE i = 0 -> <<3, 4, 0>>
                      [] i = 1 -> <<-4, 3, 0>>
                      [] i = 2 -> <<0, -5, 0>>
                      [] i = 3 -> <<3, 0, 0>>]

\* the first n points of a cloud
FirstPoints(cloud, n) == [i \in 0..(n - 1) |-> cloud[i]]

DegenerateClouds ==
    {FirstPoints(cloud, n) : cloud \in {FlatAbove, FlatThrough}, n \in 1..NPoints(FlatAbove)}

InitDegenerate == NewGamut(Clouds \cup DegenerateClouds)

SpecDegenerate == InitDegenerate /\ [][Construct]_vars

(***************************************************************************)
(* C12: constructing a Gamut from fewer than 4 points, or from points that *)
(* are all coplanar, fails, in plain mode as in modified mode; no Gamut    *)
(* whose hull has zero volume is produced.                                 *)
(***************************************************************************)
DegenerateInput ==
    \/ NPoints(data) < 4
    \/ \A i \in DOMAIN data :
          \A j, k, l \in DOMAIN data :
              Dot(Sub(data[l], data[i]), Cross(Sub(data[j], data[i]), Sub(data[k], data[i]))) = 0

\* every point that was hulled lies in the plane of every facet
ZeroVolumeHull ==
    \A k \in FacetIds : \A i \in DOMAIN hull_points : SideOfFacet(k, hull_points[i]) = 0

C12_DegenerateInputFails ==
    /\ (DegenerateInput /\ pc # "new") => pc = "failed"
    /\ pc = "ready" => ~ZeroVolumeHull

(***************************************************************************)
(* All the queries on one constructed gamut, one call after another        *)
(***************************************************************************)
NextQueries ==
    \/ InitializeConvexHull
    \/ FixOrientation
    \/ FeitoCall
    \/ FeitoStep
    \/ FeitoEnd
    \/ IsInside
    \/ IntersectionpointOnLine
    \/ Return

SpecQueries == InitBatch /\ [][NextQueries]_vars

(***************************************************************************)
(* C13: feito_torres, is_inside and intersectionpoint_on_line are          *)
(* read-only: once construction has finished, no step of a query, whether  *)
(* it succeeds or fails, changes hull.points, vertices, simplices (the     *)
(* order of the indices inside each facet included), neighbors or center.  *)
(***************************************************************************)
Constructed == pc \notin {"new", "hulled", "failed"}

C13_QueriesReadOnly ==
    [][Constructed => UNCHANGED <<hull_points, vertices, simplices, neighbors, center>>]_vars

\* a boundary query has failed on a gamut whose constructor had facets to turn
C13_Witness ==
    /\ RayReturned
    /\ "raised" \in DOMAIN result
    /\ simplices \notin QhullSimplices(hull_points)
    /\ simplices = fix_orientation(hull_points, vertices, simplices)

(***************************************************************************)
(* Membership queries of several callers on one gamut, each on a thread of *)
(* its own.  threads[c] holds the local variables of the call of caller c: *)
(* those of is_inside and traverse_ndarray (nd_data, indices, bool_array,  *)
(* the frames of the recursion) and those of the feito_torres call of the  *)
(* current leaf (P, inclusion, v_plus, v_minus, the loop's position).      *)
(* A step of a thread is one facet of feito_torres or one step of the      *)
(* traversal; the threads' steps interleave in any order.                  *)
(***************************************************************************)
Callers == {"a", "b"}

\* the arrays the callers pass: one point, and two points in a row
CallerArrays == {nd \in QueryArrays : nd.shape \in {<<>>, <<2>>}}

\* line 156-159 at the entry of feito_torres(Q)
EnterFeito(th, Q) ==
    [th EXCEPT !.pc = "feito_torres", !.P = Q, !.facet_i = 0, !.inclusion = 0,
               !.v_plus = <<>>, !.v_minus = <<>>, !.returned = FALSE]

\* lines 109-117
EnterIsInside(nd) ==
    LET th == [pc |-> "traverse_ndarray", nd_data |-> nd,
               indices |-> [j \in 1..Len(nd.shape) |-> 0 - 1],
               bool_array |-> [shape |-> nd.shape,
                               at |-> [idx \in IndexTuples(nd.shape) |-> FALSE]],
               stack |-> <<[path |-> <<>>, curr_dim |-> 0, it |-> 0]>>,
               P |-> origin, facet_i |-> 0, inclusion |-> 0, v_plus |-> <<>>,
               v_minus |-> <<>>, returned |-> FALSE, result |-> "none"]
    IN  IF nd.shape = <<>>
        THEN EnterFeito([th EXCEPT !.stack = <<>>], nd.at[<<>>])
        ELSE th

\* lines 132-146: the next step of traverse_ndarray in the innermost frame
TraverseStep(th) ==
    LET top == th.stack[Len(th.stack)]
        rest == Resume(SubSeq(th.stack, 1, Len(th.stack) - 1))
        depth == Len(top.path)
        next_indices == [th.indices EXCEPT ![top.curr_dim + 1] = top.it]
    IN  IF depth = Len(th.nd_data.shape)
        THEN EnterFeito(th, th.nd_data.at[top.path])
        ELSE IF top.it < th.nd_data.shape[depth + 1]
        THEN [th EXCEPT
                 !.indices = next_indices,
                 !.stack = Append(@, [path |-> Append(top.path, top.it),
                                      curr_dim |-> IF depth + 1 = Len(th.nd_data.shape)
                                                   THEN 0 ELSE CurrDim(next_indices),
                                      it |-> 0])]
        ELSE [th EXCEPT
                 !.indices = [@ EXCEPT ![top.curr_dim + 1] = 0 - 1],
                 !.stack = rest,
                 !.pc = IF rest = <<>> THEN "returned" ELSE @,
                 !.result = IF rest = <<>> THEN th.bool_array ELSE @]

\* as the lists and the accumulator would be if one set of them, that of caller
\* "a" while it has a call running, served every call
LocalsOfFirst(c) ==
    LET o == IF "a" \in DOMAIN threads THEN "a" ELSE c
    IN  [inclusion |-> threads[o].inclusion, v_plus |-> threads[o].v_plus,
         v_minus |-> threads[o].v_minus, returned |-> FALSE]

\* lines 156-158: inclusion, v_plus and v_minus are local variables of the call
Locals(c) ==
    [inclusion |-> threads[c].inclusion, v_plus |-> threads[c].v_plus,
     v_minus |-> threads[c].v_minus, returned |-> FALSE]

\* lines 161-224 and 112 or 146: one facet of the loop, or the return to the caller
FeitoStepOf(c) ==
    LET th == threads[c]
        st == FeitoFacet(Locals(c), hull_points, simplices[th.facet_i + 1], th.P)
        verdict == th.returned \/ th.inclusion > 0
    IN  IF ~th.returned /\ th.facet_i < Len(simplices)
        THEN [th EXCEPT !.inclusion = st.inclusion, !.v_plus = st.v_plus,
                        !.v_minus = st.v_minus, !.returned = st.returned,
                        !.facet_i = @ + 1]
        ELSE IF th.stack = <<>>
        THEN [th EXCEPT !.pc = "returned",
                        !.result = [shape |-> <<1>>, at |-> [idx \in {<<0>>} |-> verdict]]]
        ELSE [th EXCEPT !.pc = "traverse_ndarray",
                        !.bool_array.at[WrapIndex(th.indices, th.nd_data.shape)] = verdict,
                        !.stack = Resume(SubSeq(@, 1, Len(@) - 1))]

CallerCalls ==
    /\ pc = "ready"
    /\ \E c \in Callers \ DOMAIN threads : \E nd \in CallerArrays :
          threads' = [u \in DOMAIN threads \cup {c} |->
                         IF u = c THEN EnterIsInside(nd) ELSE threads[u]]
    /\ UNCHANGED <<pc, gamut_vars, fix_runs, call_vars>>

CallerTraverses ==
    /\ \E c \in DOMAIN threads :
          /\ threads[c].pc = "traverse_ndarray"
          /\ threads' = [threads EXCEPT ![c] = TraverseStep(@)]
    /\ UNCHANGED <<pc, gamut_vars, fix_runs, call_vars>>

CallerFeito ==
    /\ \E c \in DOMAIN threads :
          /\ threads[c].pc = "feito_torres"
          /\ threads' = [threads EXCEPT ![c] = FeitoStepOf(c)]
    /\ UNCHANGED <<pc, gamut_vars, fix_runs, call_vars>>

CallerReturns ==
    /\ \E c \in DOMAIN threads :
          /\ threads[c].pc = "returned"
          /\ threads' = [u \in DOMAIN threads \ {c} |-> threads[u]]
    /\ UNCHANGED <<pc, gamut_vars, fix_runs, call_vars>>

NextConcurrent ==
    \/ InitializeConvexHull
    \/ FixOrientation
    \/ CallerCalls
    \/ CallerTraverses
    \/ CallerFeito
    \/ CallerReturns

SpecConcurrent == InitBatch /\ [][NextConcurrent]_vars

(***************************************************************************)
(* C14: membership queries that run concurrently on one constructed gamut, *)
(* interleaved at any step, each return what they return when run alone.   *)
(***************************************************************************)
\* what is_inside returns for the array nd when nothing else runs
AloneResult(nd) ==
    IF nd.shape = <<>>
    THEN [shape |-> <<1>>,
          at |-> [idx \in {<<0>>} |-> feito_torres(hull_points, simplices, nd.at[<<>>])]]
    ELSE [shape |-> nd.shape,
          at |-> [idx \in IndexTuples(nd.shape) |->
                     feito_torres(hull_points, simplices, nd.at[idx])]]

C14_ConcurrentAsAlone ==
    \A c \in DOMAIN threads :
        threads[c].pc = "returned" => threads[c].result = AloneResult(threads[c].nd_data)

\* one caller has its answers, True and False, while the other is between two
\* facets of a point whose lists are not empty
C14_Witness ==
    /\ DOMAIN threads = Callers
    /\ threads["b"].pc = "returned"
    /\ threads["b"].result.shape = <<2>>
    /\ threads["b"].result.at[<<0>>] # threads["b"].result.at[<<1>>]
    /\ threads["a"].pc = "feito_torres"
    /\ threads["a"].facet_i = 2
    /\ threads["a"].v_plus # threads["a"].v_minus

(***************************************************************************)
(* Gamut.in_line and Gamut.in_triangle as functions of their arguments:    *)
(* they read nothing of the gamut.  shape_in is the segment or triangle    *)
(* and P the point; the coordinates are 0 .. MaxCoord.                     *)
(***************************************************************************)
MaxCoord == 2

GridPoints == {<<x, y, z>> : x \in 0..MaxCoord, y \in 0..MaxCoord, z \in 0..MaxCoord}

\* no gamut and no other call
Standalone ==
    /\ data = <<>>
    /\ gamma = 1
    /\ exp_center = origin
    /\ hull_points = <<>>
    /\ vertices = <<>>
    /\ simplices = <<>>
    /\ neighbors = <<>>
    /\ center = <<>>
    /\ fix_runs = 0
    /\ facet_i = 0
    /\ inclusion = 0
    /\ v_plus = <<>>
    /\ v_minus = <<>>
    /\ nd_data = <<>>
    /\ indices = <<>>
    /\ bool_array = <<>>
    /\ visits = <<>>
    /\ stack = <<>>
    /\ ray_d = origin
    /\ ray_center = origin
    /\ threads = <<>>
    /\ result = "none"

InitInLine ==
    /\ pc = "in_line"
    /\ shape_in \in {<<a, b>> : a \in GridPoints, b \in GridPoints}
    /\ P \in GridPoints
    /\ Standalone

\* in_line(line, point), end points included
InLine ==
    /\ pc = "in_line"
    /\ result' = in_line(shape_in, P, FALSE)
    /\ pc' = "in_line returned"
    /\ UNCHANGED <<threads, gamut_vars, fix_runs, query_vars, batch_vars, ray_vars, shape_in>>

SpecInLine == InitInLine /\ [][InLine]_vars

(***************************************************************************)
(* C15: in_line([a, b], p), end points included, returns True if and only  *)
(* if p is collinear with a and b, (p - a) . (b - a) >= 0 and              *)
(* |p - a| <= |b - a|; it returns False for every p off the line through   *)
(* a and b.                                                                *)
(***************************************************************************)
OnSegment(a, b, q) ==
    /\ Cross(Sub(q, a), Sub(b, a)) = origin
    /\ Dot(Sub(q, a), Sub(b, a)) >= 0
    /\ Dot(Sub(q, a), Sub(q, a)) <= Dot(Sub(b, a), Sub(b, a))

C15_InLineIffOnSegment ==
    pc = "in_line returned" => (result <=> OnSegment(shape_in[1], shape_in[2], P))

(***************************************************************************)
(* C16: for each facet in turn, if P lies on the facet's triangle, edges    *)
(* and vertices included, feito_torres returns True at that facet: the     *)
(* loop never goes on past a facet that holds P.                           *)
(***************************************************************************)
\* q lies in the closed triangle of facet k
OnFacet(k, q) ==
    LET f == get_coordinates(hull_points, simplices[k])
        n == Cross(Sub(f[2], f[1]), Sub(f[3], f[1]))
    IN  /\ Dot(Sub(q, f[1]), n) = 0
        /\ Dot(Cross(Sub(f[2], f[1]), Sub(q, f[1])), n) >= 0
        /\ Dot(Cross(Sub(f[3], f[2]), Sub(q, f[2])), n) >= 0
        /\ Dot(Cross(Sub(f[1], f[3]), Sub(q, f[3])), n) >= 0

\* facet_i counts the facets whose pass has ended without a return
C16_OnFacetReturnsAtOnce ==
    pc \in {"feito_torres", "feito_torres returned"} =>
        \A k \in 1..facet_i : ~OnFacet(k, P)

(***************************************************************************)
(* C17: during every membership query v_plus and v_minus hold only         *)
(* hull-vertex indices: what is appended and looked up for the first, the  *)
(* last and the middle vertex of a facet is the point index of the vertex. *)
(***************************************************************************)
VertexIndices == {vertices[k] : k \in 1..Len(vertices)}

C17_ListsHoldVertexIndices ==
    pc \in {"feito_torres", "feito_torres returned"} =>
        SetOf(v_plus) \cup SetOf(v_minus) \subseteq VertexIndices

(***************************************************************************)
(* Membership queries on three hulls: the origin at the centre of a        *)
(* tetrahedron, inside an octahedron, and on a face of a cube              *)
(***************************************************************************)
FeitoClouds == {Tetrahedron(origin), Octahedron(origin), Cube(<<1, 0, 0>>)}

InitFeito == NewGamut(FeitoClouds)

SpecFeito == InitFeito /\ [][Next]_vars

(***************************************************************************)
(* C18: in the pass of a facet that reaches the remaining vertex (lines    *)
(* 193-219), if P lies in one of the three triangles formed by the origin  *)
(* and two consecutive vertices of the facet, edges included, exactly half *)
(* the sign of the origin tetrahedron is added to the accumulator, and     *)
(* neither the origin-edge branch nor the tetrahedron branch is taken.     *)
(***************************************************************************)
InClosedTriangle(q, a, b, c) ==
    LET n == Cross(Sub(b, a), Sub(c, a))
    IN  /\ Dot(n, n) > 0
        /\ Dot(Sub(q, a), n) = 0
        /\ Dot(Cross(Sub(b, a), Sub(q, a)), n) >= 0
        /\ Dot(Cross(Sub(c, b), Sub(q, b)), n) >= 0
        /\ Dot(Cross(Sub(a, c), Sub(q, c)), n) >= 0

\* the facet whose pass comes next, and the loop's variables after lines 171-191
\* and after lines 193-219 of that pass
NextFacet ==
    LET el == simplices[facet_i + 1]
        facet == get_coordinates(hull_points, el)
        inside == Interiors(facet, P)
        st == [inclusion |-> inclusion, v_plus |-> v_plus, v_minus |-> v_minus,
               returned |-> FALSE]
        edges == OriginalEdge(OriginalEdge(st, el, facet, 1, inside[2]), el, facet, 3, inside[3])
    IN  [facet |-> facet, returns |-> inside[1], before |-> edges,
         after |-> RemainingVertices(edges, el, facet, inside),
         sign_tetra |-> sign(<<origin, facet[1], facet[2], facet[3]>>)]

ReachesRemainingVertex ==
    pc = "feito_torres" /\ facet_i < Len(simplices) /\ ~NextFacet.returns

\* half the sign is one unit of the doubled accumulator
AddsHalfOnly(nf) ==
    /\ nf.after.inclusion = nf.before.inclusion + nf.sign_tetra
    /\ nf.after.v_plus = nf.before.v_plus
    /\ nf.after.v_minus = nf.before.v_minus

\* C18: in step 2d, when P lies in any of the three triangles formed by the
\* origin and two consecutive facet vertices, edges included, exactly half the
\* tetrahedron's sign is added and neither other branch is taken
C18_InOriginTriangleAddsHalf ==
    pc = "feito_torres" /\ facet_i < Len(simplices) =>
        \A nf \in {NextFacet} :
            (/\ ~nf.returns
             /\ \E m \in 1..3 :
                   InClosedTriangle(P, origin, nf.facet[m], nf.facet[(m % 3) + 1]))
                => AddsHalfOnly(nf)

\* C18 as amended: when P lies strictly inside one of the three triangles
\* of the origin and two consecutive facet vertices (edges excluded), the
\* pass of that facet adds exactly half the sign and records no vertex
C18_StrictlyInOriginTriangleAddsHalf ==
    pc = "feito_torres" /\ facet_i < Len(simplices) =>
        \A nf \in {NextFacet} :
            (/\ ~nf.returns
             /\ \E m \in 1..3 :
                   StrictlyInTriangle(P, origin, nf.facet[m], nf.facet[(m % 3) + 1]))
                => AddsHalfOnly(nf)

\* the pass of a facet about to add half of a sign that is not 0
C18_Witness ==
    /\ ReachesRemainingVertex
    /\ \E m \in 1..3 :
          StrictlyInTriangle(P, origin, NextFacet.facet[m], NextFacet.facet[(m % 3) + 1])
    /\ NextFacet.sign_tetra # 0
    /\ NextFacet.after.inclusion = NextFacet.before.inclusion + NextFacet.sign_tetra

(***************************************************************************)
(* in_triangle called on its own with a triangle two of whose vertices     *)
(* coincide: shape_in is the triangle and P the point.                     *)
(***************************************************************************)
DegenerateTriangles ==
    {<<a, a, c>> : a \in GridPoints, c \in GridPoints} \cup
    {<<a, b, a>> : a \in GridPoints, b \in GridPoints} \cup
    {<<a, b, b>> : a \in GridPoints, b \in GridPoints}

InitInTriangle ==
    /\ pc = "in_triangle"
    /\ shape_in \in {t \in DegenerateTriangles : Cardinality({t[1], t[2], t[3]}) = 2}
    /\ P \in GridPoints
    /\ Standalone

\* in_triangle(triangle, P), edges included
InTriangle ==
    /\ pc = "in_triangle"
    /\ result' = in_triangle(shape_in, P, FALSE)
    /\ pc' = "in_triangle returned"
    /\ UNCHANGED <<threads, gamut_vars, fix_runs, query_vars, batch_vars, ray_vars, shape_in>>

SpecInTriangle == InitInTriangle /\ [][InTriangle]_vars

(***************************************************************************)
(* C19: when two of the triangle's three vertices coincide, in_triangle    *)
(* returns the point-on-segment result for P against the segment between   *)
(* the triangle's two distinct points: True for every P on that segment,   *)
(* False otherwise.                                                        *)
(***************************************************************************)
\* the two distinct points of a triangle with two coincident vertices
DistinctEnds(t) == IF t[1] = t[2] THEN <<t[1], t[3]>> ELSE <<t[1], t[2]>>

C19_DegenerateTriangleIsSegment ==
    pc = "in_triangle returned" =>
        (result <=> OnSegment(DistinctEnds(shape_in)[1], DistinctEnds(shape_in)[2], P))

(***************************************************************************)
(* The centre fix_orientation winds the facets about, in modified mode.    *)
(* RawCentre is the centre of mass of the hull vertices in the             *)
(* coordinates the gamut was given, HulledCentre in the translated and     *)
(* re-scaled coordinates that were hulled; both are <<sum, count>> pairs.  *)
(***************************************************************************)
RawCentre == center_of_mass(get_coordinates(data, vertices))

HulledCentre == center_of_mass(get_coordinates(ModifiedRadius(data, exp_center), vertices))

\* the facets as they are after winding them about c
OrientedAbout(c) ==
    [k \in 1..Len(simplices) |->
        IF NeedsFix(hull_points, simplices[k], c) THEN SwapFirstLast(simplices[k])
        ELSE simplices[k]]

RunsFixOrientation == gamma # 1 /\ pc \in {"hulled", "ready"}

\* clouds whose centre of mass, taken in raw coordinates, lies outside the hull
\* of the re-scaled coordinates when the centre of expansion is off the axes
ModifiedClouds == {Octahedron(off) : off \in Offsets}

InitModified == NewGamut(Clouds \cup ModifiedClouds)

SpecModified == InitModified /\ [][NextConstruct]_vars

(***************************************************************************)
(* C20: in modified mode (gamma # 1) the centre fix_orientation uses to    *)
(* decide the winding of the facets is computed from the raw coordinates   *)
(* of the hull vertices, not from the translated and re-scaled             *)
(* coordinates that were hulled.                                           *)
(***************************************************************************)
C20_CentreFromRawCoordinates ==
    [][RunsFixOrientation => simplices' = OrientedAbout(RawCentre)]_vars

(***************************************************************************)
(* C20 as amended: in modified mode the centre fix_orientation uses is     *)
(* computed from the coordinates that were hulled, translated and          *)
(* re-scaled, which are the coordinates the facets' normals are taken      *)
(* from.                                                                   *)
(***************************************************************************)
C20_CentreFromHulledCoordinates ==
    [][RunsFixOrientation => simplices' = OrientedAbout(HulledCentre)]_vars

\* a gamut in modified mode, wound, which the raw centre would wind otherwise
C20_Witness ==
    /\ gamma # 1
    /\ pc = "ready"
    /\ fix_runs > 0
    /\ simplices = OrientedAbout(HulledCentre)
    /\ simplices # OrientedAbout(RawCentre)

(***************************************************************************)
(* sign called on its own: shape_in is t, four points with whole           *)
(* coordinates adding up to MaxCoord at most.                              *)
(***************************************************************************)
SignPoints == {q \in GridPoints : q[1] + q[2] + q[3] <= MaxCoord}

InitSign ==
    /\ pc = "sign"
    /\ shape_in \in [1..4 -> SignPoints]
    /\ P = origin
    /\ Standalone

\* sign(t)
SignCall ==
    /\ pc = "sign"
    /\ result' = sign(shape_in)
    /\ pc' = "sign returned"
    /\ UNCHANGED <<threads, gamut_vars, fix_runs, query_vars, batch_vars, ray_vars, shape_in>>

SpecSign == InitSign /\ [][SignCall]_vars

\* the determinant of the 4x4 matrix whose rows are the points of t, each
\* extended by a 1, expanded along the column of ones
HomogeneousDeterminant(t) ==
    Det3(t[1], t[2], t[3]) - Det3(t[1], t[2], t[4])
        + Det3(t[1], t[3], t[4]) - Det3(t[2], t[3], t[4])

\* t with the points at positions i and j exchanged
Exchanged(t, i, j) == [t EXCEPT ![i] = t[j], ![j] = t[i]]

\* the four points lie in one plane
FourCoplanar(t) == Flat(t)

SignReturned == pc = "sign returned"

SignIsTernary ==
    /\ result \in {1, 0, -1}
    /\ result = 0 <=> FourCoplanar(shape_in)
    /\ \A i, j \in 1..4 : i < j => sign(Exchanged(shape_in, i, j)) = 0 - result

(***************************************************************************)
(* C21: sign(t) is +1, 0 or -1 and equals the sign of the 4x4 determinant  *)
(* of the four points of t, each extended by a 1; it is 0 exactly when the *)
(* four points are coplanar and it negates when two points are swapped.    *)
(***************************************************************************)
C21_SignOfDeterminant ==
    SignReturned =>
        SignIsTernary /\ result = Sgn(HomogeneousDeterminant(shape_in))

(***************************************************************************)
(* C21 as amended: sign(t) is +1, 0 or -1 and equals minus the sign of     *)
(* that determinant; it is 0 exactly when the four points are coplanar and *)
(* it negates when two points are swapped.                                 *)
(***************************************************************************)
C21_MinusSignOfDeterminant ==
    SignReturned =>
        SignIsTernary /\ result = 0 - Sgn(HomogeneousDeterminant(shape_in))

\* sign has returned +1 for four points whose determinant is negative
C21_Witness ==
    /\ SignReturned
    /\ result = 1
    /\ HomogeneousDeterminant(shape_in) < 0

(***************************************************************************)
(* feito_torres(P) with a P that does not have 3 coordinates, which is     *)
(* also what is_inside does with a one-dimensional array (line 111).       *)
(* numpy subtracts a vertex from P at the first test of the first facet    *)
(* (in_line, line 329): with 2 or 4 coordinates the shapes do not          *)
(* broadcast and ValueError is raised; with 1 coordinate P broadcasts to   *)
(* (x, x, x) and the tests go on with that point, until                    *)
(* Delaunay.find_simplex (line 310), which checks the length of its        *)
(* argument and raises ValueError.  None of the clouds leads to            *)
(* in_polygon, whose comparison of tuples (line 325) would not broadcast.  *)
(***************************************************************************)
MalformedPoints == UNION {[1..n -> (0 - 1)..1] : n \in {1, 2, 4}}

BroadcastPoint(q) == <<q[1], q[1], q[1]>>

FeitoCallMalformed ==
    /\ pc = "ready"
    /\ \E q \in MalformedPoints : P' = q
    /\ pc' = "feito_torres"
    /\ UNCHANGED <<threads, gamut_vars, fix_runs, facet_i, inclusion, v_plus, v_minus, batch_vars,
                   ray_vars, shape_in, result>>

\* the pass of the facet comes to line 310: the facet, the original triangles
\* and the original edge of the middle vertex have not taken Q, the original
\* tetrahedron is not flat and none of its faces holds Q
FindSimplexReached(st, el, facet, Q) ==
    LET inside == Interiors(facet, Q)
        edges == OriginalEdge(OriginalEdge(st, el, facet, 1, inside[2]), el, facet, 3, inside[3])
        tetra == Simplex(8, facet)
    IN  /\ ~inside[1]
        /\ ~(\E k \in 4..6 : inside[k])
        /\ ~(inside[7] /\ NotRecorded(sign(tetra), MiddleKey(el, facet), edges))
        /\ ~is_coplanar(tetra)
        /\ ~(\E i \in 1..4 : in_triangle(Delete(tetra, i), Q, FALSE))

FeitoRaises ==
    /\ pc' = "feito_torres raised"
    /\ result' = [raised |-> "ValueError"]
    /\ UNCHANGED <<facet_i, inclusion, v_plus, v_minus>>

FeitoStepMalformed ==
    /\ pc = "feito_torres"
    /\ facet_i < Len(simplices)
    /\ LET st == [inclusion |-> inclusion, v_plus |-> v_plus, v_minus |-> v_minus,
                  returned |-> FALSE]
           el == simplices[facet_i + 1]
       IN  IF Len(P) # 1
           THEN FeitoRaises
           ELSE IF FindSimplexReached(st, el, get_coordinates(hull_points, el),
                                      BroadcastPoint(P))
           THEN FeitoRaises
           ELSE FeitoStepTo(FeitoFacet(st, hull_points, el, BroadcastPoint(P)))
    /\ UNCHANGED <<threads, gamut_vars, fix_runs, P, batch_vars, ray_vars, shape_in>>

NextMalformed == Construct \/ FeitoCallMalformed \/ FeitoStepMalformed \/ FeitoEnd \/ Return

SpecMalformed == InitFeito /\ [][NextMalformed]_vars

(***************************************************************************)
(* C22: a membership query whose point does not have 3 coordinates fails   *)
(* with an error reported to the caller: it never returns a boolean, and   *)
(* it leaves hull.points, vertices, simplices, neighbors and center as     *)
(* they were.                                                              *)
(***************************************************************************)
MalformedQuery == pc = "feito_torres" /\ Len(P) # 3

C22_MalformedQueryFails ==
    [][MalformedQuery =>
          /\ pc' # "feito_torres returned"
          /\ UNCHANGED <<hull_points, vertices, simplices, neighbors, center>>]_vars

(***************************************************************************)
(* C23: in every construction fix_orientation runs exactly once, after     *)
(* hull, vertices, simplices, neighbors and center have all been assigned  *)
(* and before the constructor returns, so before any query runs; within    *)
(* that run the winding of each facet is reversed at most once.            *)
(***************************************************************************)
AllAssigned ==
    /\ hull_points # <<>>
    /\ vertices # <<>>
    /\ simplices # <<>>
    /\ neighbors # <<>>
    /\ center # <<>>

\* the constructor has returned a gamut
ConstructorReturned == pc \notin {"new", "hulled", "failed"}

C23_FixOrientationOnceAtTheEnd ==
    [][/\ fix_runs' # fix_runs =>
            /\ pc = "hulled" /\ pc' = "ready"
            /\ AllAssigned
            /\ fix_runs = 0 /\ fix_runs' = 1
            /\ Len(simplices') = Len(simplices)
            /\ \A k \in 1..Len(simplices) :
                  simplices'[k] \in {simplices[k], SwapFirstLast(simplices[k])}
       /\ ConstructorReturned' => fix_runs' = 1]_vars

\* a query running on a gamut whose constructor has reversed some facet
C23_Witness ==
    /\ pc = "feito_torres"
    /\ fix_runs = 1
    /\ simplices \notin QhullSimplices(hull_points)

(***************************************************************************)
(* C24: fix_orientation only exchanges positions 0 and 2 inside a facet:   *)
(* after it every facet is the same set of 3 valid point indices as        *)
(* before, the number and the order of the facets are unchanged, and       *)
(* vertices, neighbors (3 entries per facet), center and the coordinates   *)
(* of the points are unchanged.                                            *)
(***************************************************************************)
FacetKept(before, after) ==
    /\ after \in {before, SwapFirstLast(before)}
    /\ {after[m] : m \in 1..3} = {before[m] : m \in 1..3}
    /\ Cardinality({after[m] : m \in 1..3}) = 3
    /\ \A m \in 1..3 : after[m] \in DOMAIN hull_points

C24_FixOrientationOnlyPermutes ==
    [][fix_runs' # fix_runs =>
          /\ Len(simplices') = Len(simplices)
          /\ \A k \in 1..Len(simplices) : FacetKept(simplices[k], simplices'[k])
          /\ Len(neighbors') = Len(simplices')
          /\ \A k \in 1..Len(neighbors') : Len(neighbors'[k]) = 3
          /\ UNCHANGED <<vertices, neighbors, center, hull_points, data>>]_vars

\* a plain gamut whose constructor had facets to turn
C24_Witness ==
    /\ pc = "ready"
    /\ gamma = 1
    /\ fix_runs = 1
    /\ simplices \notin QhullSimplices(hull_points)

(***************************************************************************)
(* Everything a caller can do with a gamut: construct it, run              *)
(* fix_orientation again, and make queries of the three kinds.             *)
(***************************************************************************)
NextLifetime == NextQueries \/ InitializeModifiedConvexHull \/ FixOrientationAgain

\* a tetrahedron about `off` whose corners are at whole distances 1, 1, 1 and 3
\* from it, so that it can be built in either mode
Spike(off) ==
    [i \in 0..3 |-> Add(off, CASE i = 0 -> <<1, 0, 0>>
                               [] i = 1 -> <<0, 1, 0>>
                               [] i = 2 -> <<0, 0, 1>>
                               [] i = 3 -> <<-2, -2, -1>>)]

InitLifetime == NewGamut({Spike(<<1, 0, 0>>)})

SpecLifetime == InitLifetime /\ [][NextLifetime]_vars

(***************************************************************************)
(* C25: after construction in modified mode (gamma # 1) center is the      *)
(* expansion centre the caller gave, unchanged; in plain mode (gamma = 1)  *)
(* center is the centre of mass of the coordinates of the hull's vertices; *)
(* no later operation changes center.                                      *)
(***************************************************************************)
\* c = <<sum, count>> is the centre of mass of the points: there are count of
\* them and their offsets from sum / count add up to nothing
IsCentreOfMass(c, points) ==
    /\ c[2] = Len(points)
    /\ \A axis \in 1..3 :
          SumTo([k \in 1..Len(points) |-> Sub(Scale(c[2], points[k]), c[1])],
                Len(points))[axis] = 0

CentreAsBuilt ==
    IF gamma # 1
    THEN center = <<exp_center, 1>>
    ELSE IsCentreOfMass(center, [k \in 1..Len(vertices) |-> hull_points[vertices[k]]])

Built == pc \notin {"new", "failed"}

C25_CentreAsBuiltAndKept ==
    [][/\ Built' => CentreAsBuilt'
       /\ Built => center' = center]_vars

\* a query has returned on a gamut built in modified mode
C25_Witness ==
    /\ gamma # 1
    /\ pc \in Returned
    /\ center = <<exp_center, 1>>
    /\ ~IsCentreOfMass(center, [k \in 1..Len(vertices) |-> hull_points[vertices[k]]])

(***************************************************************************)
(* C26: within one membership query no hull vertex is credited through the *)
(* original-edge branches more than once for the same sign, whichever      *)
(* position (first, middle, last) it has in the facets that share it and   *)
(* whichever order the facets come in.                                     *)
(***************************************************************************)
\* the credits the pass of one facet gives through lines 171, 182 and 205, as
\* pairs <<index of the vertex, sign>>, in the order they are given
CreditsOf(st, el, facet, inside) ==
    LET sgn == sign(Simplex(8, facet))
        after_first == OriginalEdge(st, el, facet, 1, inside[2])
        after_last == OriginalEdge(after_first, el, facet, 3, inside[3])
        first == inside[2] /\ NotRecorded(sgn, el[1], st)
        last == inside[3] /\ NotRecorded(sgn, el[3], after_first)
        middle == /\ ~(\E k \in 4..6 : inside[k])
                  /\ inside[7]
                  /\ NotRecorded(sgn, MiddleKey(el, facet), after_last)
    IN  IF inside[1] THEN <<>>
        ELSE (IF first THEN << <<el[1], sgn>> >> ELSE <<>>)
                 \o (IF last THEN << <<el[3], sgn>> >> ELSE <<>>)
                 \o (IF middle THEN << <<el[2], sgn>> >> ELSE <<>>)

\* the credits of the first n facets of the running query
RECURSIVE QueryCredits(_)
QueryCredits(n) ==
    IF n = 0 THEN <<>>
    ELSE LET st == FeitoLoop(hull_points, simplices, P, n - 1)
             facet == get_coordinates(hull_points, simplices[n])
         IN  IF st.returned THEN QueryCredits(n - 1)
             ELSE QueryCredits(n - 1) \o CreditsOf(st, simplices[n], facet, Interiors(facet, P))

C26_NoVertexCreditedTwice ==
    pc = "feito_torres" =>
        \A credits \in {QueryCredits(facet_i)} :
            \A i, j \in 1..Len(credits) : credits[i] = credits[j] => i = j

(***************************************************************************)
(* in_triangle called on its own with three points that are not on one     *)
(* line: shape_in is the triangle and P the point.                         *)
(***************************************************************************)
TrianglePoints ==
    {q \in GridPoints : \/ q[1] + q[2] + q[3] <= MaxCoord
                        \/ q[3] = 0 /\ q[1] + q[2] = MaxCoord + 1}

Collinear(a, b, c) == Cross(Sub(b, a), Sub(c, a)) = origin

InitTriangle ==
    /\ pc = "in_triangle"
    /\ shape_in \in {t \in [1..3 -> TrianglePoints] : ~Collinear(t[1], t[2], t[3])}
    /\ P \in GridPoints
    /\ Standalone

SpecTriangle == InitTriangle /\ [][InTriangle]_vars

(***************************************************************************)
(* C27: for three vertices that are not on one line, and edges included,   *)
(* in_triangle(triangle, P) returns True if and only if P lies in the      *)
(* closed triangle, for every ordering of the three vertices.              *)
(***************************************************************************)
Orderings == {f \in [1..3 -> 1..3] : {f[1], f[2], f[3]} = 1..3}

C27_InTriangleIffInClosedTriangle ==
    pc = "in_triangle returned" =>
        /\ result <=> InClosedTriangle(P, shape_in[1], shape_in[2], shape_in[3])
        /\ \A f \in Orderings :
              in_triangle([m \in 1..3 |-> shape_in[f[m]]], P, FALSE) = result

\* True was returned for a point strictly inside a triangle with no corner at the origin
C27_Witness ==
    /\ pc = "in_triangle returned"
    /\ result
    /\ StrictlyInTriangle(P, shape_in[1], shape_in[2], shape_in[3])
    /\ shape_in[1] # origin

(***************************************************************************)
(* C28: true_shape of three points, no two the same and not on one line,   *)
(* returns all three points, a triangle, never a segment of two points.    *)
(***************************************************************************)
ProperTriangle(points) ==
    /\ Len(points) = 3
    /\ Cardinality(SetOf(points)) = 3
    /\ ~Collinear(points[1], points[2], points[3])

C28_TriangleStaysTriangle ==
    TrueShapeReturned /\ ProperTriangle(shape_in) =>
        Len(result) = 3 /\ SetOf(result) = SetOf(shape_in)

(***************************************************************************)
(* interior called on its own with four points of one plane, none of them  *)
(* in the triangle of the other three: shape_in is pts and P is q.         *)
(***************************************************************************)
ConvexPosition(t) ==
    /\ Cardinality(SetOf(t)) = 4
    /\ Flat(t)
    /\ \A i \in 1..4 :
          /\ ~Collinear(Delete(t, i)[1], Delete(t, i)[2], Delete(t, i)[3])
          /\ ~InClosedTriangle(t[i], Delete(t, i)[1], Delete(t, i)[2], Delete(t, i)[3])

InitQuad ==
    /\ pc = "interior"
    /\ shape_in \in {t \in [1..4 -> {q \in GridPoints : q[3] = 0}] : ConvexPosition(t)}
    /\ P \in GridPoints
    /\ Standalone

\* interior(pts, q), edges included
InteriorCall ==
    /\ pc = "interior"
    /\ result' = interior(shape_in, P, FALSE)
    /\ pc' = "interior returned"
    /\ UNCHANGED <<threads, gamut_vars, fix_runs, query_vars, batch_vars, ray_vars, shape_in>>

SpecQuad == InitQuad /\ [][InteriorCall]_vars

(***************************************************************************)
(* C29: for four coplanar points in convex position, interior(pts, q) with *)
(* edges included returns True exactly when q lies in the closed           *)
(* quadrilateral, and gives the same answer for every ordering of the      *)
(* four points.                                                            *)
(***************************************************************************)
\* the closed quadrilateral is covered by the triangles of its corners
InClosedQuad(q, t) ==
    \E i \in 1..4 : InClosedTriangle(q, Delete(t, i)[1], Delete(t, i)[2], Delete(t, i)[3])

C29_InteriorIffInClosedQuad ==
    pc = "interior returned" =>
        /\ result <=> InClosedQuad(P, shape_in)
        /\ \A f \in {g \in [1..4 -> 1..4] : {g[m] : m \in 1..4} = 1..4} :
              interior([m \in 1..4 |-> shape_in[f[m]]], P, FALSE) = result

(***************************************************************************)
(* C30: while traverse_ndarray goes over an array of any rank and any axis *)
(* lengths, each leaf is handed to feito_torres exactly once; when a leaf  *)
(* is written the index vector is the leaf's own multi-index, with no -1   *)
(* in it; and when the outermost call returns every entry of the index     *)
(* vector is -1 again.                                                     *)
(***************************************************************************)
AtLeaf == pc = "traverse_ndarray" /\ IsLeaf(Top)

OutermostReturns == pc = "traverse_ndarray" /\ pc' = "is_inside returned"

C30_EachLeafOnceAtItsIndex ==
    [][/\ AtLeaf =>
            /\ indices = Top.path
            /\ \A j \in 1..Len(indices) : indices[j] # 0 - 1
            /\ visits[Top.path] = 0
       /\ OutermostReturns =>
            /\ \A j \in 1..Len(indices') : indices'[j] = 0 - 1
            /\ \A idx \in IndexTuples(nd_data.shape) : visits'[idx] = 1]_vars

\* is_inside has returned for an array of rank 2 with 2 x 2 leaves
C30_Witness ==
    /\ pc = "is_inside returned"
    /\ nd_data.shape = <<2, 2>>
    /\ \A idx \in IndexTuples(nd_data.shape) : visits[idx] = 1
    /\ indices = <<0 - 1, 0 - 1>>

====
